---- MODULE Spec2Model ----
(***************************************************************************)
(* Model of the ERC-8040 Python SDK (erc8040_sdk): ESG ratings, scores and *)
(* the scoring calculator (esg.py), and the compliance rules and validator *)
(* (compliance.py).                                                        *)
(*                                                                         *)
(* Python floats are IEEE-754 binary64 values.  They are modelled exactly: *)
(* a float is sgn * m * 2^e with m an odd natural number of at most 53     *)
(* bits, held as a little-endian sequence of limbs (base 2^15), and every  *)
(* arithmetic operation rounds its exact result to nearest, ties to even.  *)
(* The values used stay far from the subnormal and overflow ranges, and    *)
(* NaN and the infinities are not among the inputs.                        *)
(***************************************************************************)
EXTENDS Integers, Sequences, FiniteSets, TLC

(***************************************************************************)
(* Python evaluates an expression once and binds its value to a name.      *)
(* Let(x, F) is F(x) with x evaluated once, before F is applied.           *)
(***************************************************************************)
Let(x, F(_)) == CHOOSE y \in {F(v) : v \in {x}} : TRUE
Let2(x1, x2, F(_, _)) == CHOOSE y \in {F(v1, v2) : v1 \in {x1}, v2 \in {x2}} : TRUE

(***************************************************************************)
(* Natural numbers of arbitrary size: little-endian limbs, no high zeros.  *)
(***************************************************************************)
LimbBits == 15
LimbBase == 32768
MantBits == 53

\* 2^n for 0 <= n <= LimbBits
Pow2Table == <<1, 2, 4, 8, 16, 32, 64, 128, 256, 512, 1024, 2048, 4096, 8192, 16384, 32768>>
Pow2(n) == Pow2Table[n + 1]

SetMax(S) == CHOOSE i \in S : \A j \in S : j <= i
SetMin(S) == CHOOSE i \in S : \A j \in S : i <= j

\* a without its high zero limbs
BNorm(x) ==
    Let(x, LAMBDA a :
        IF a = <<>> THEN <<>>
        ELSE Let({i \in 1..Len(a) : a[i] /= 0}, LAMBDA nz :
                 IF nz = {} THEN <<>> ELSE SubSeq(a, 1, SetMax(nz))))

BFromInt(n) == BNorm(<<n % LimbBase, (n \div LimbBase) % LimbBase, n \div (LimbBase * LimbBase)>>)

BLimb(a, i) == IF i <= Len(a) THEN a[i] ELSE 0

\* s[i] + 1 if limb i takes a carry, for limb sums s: a lower limb
\* overflows and every limb in between passes the carry on
BCarried(s) ==
    [i \in DOMAIN s |->
        (s[i] + (IF \E j \in 1..(i - 1) :
                       s[j] >= LimbBase /\ \A k \in (j + 1)..(i - 1) : s[k] = LimbBase - 1
                 THEN 1 ELSE 0)) % LimbBase]

\* a + b
BAdd(x, y) ==
    Let2(x, y, LAMBDA a, b :
        IF a = <<>> THEN BNorm(b)
        ELSE IF b = <<>> THEN BNorm(a)
        ELSE BNorm(Let([i \in 1..((IF Len(a) > Len(b) THEN Len(a) ELSE Len(b)) + 1) |->
                           BLimb(a, i) + BLimb(b, i)], BCarried)))

\* d[i] - 1 if limb i lends to a lower limb, for limb differences d
BBorrowed(d) ==
    [i \in DOMAIN d |->
        (d[i] - (IF \E j \in 1..(i - 1) : d[j] < 0 /\ \A k \in (j + 1)..(i - 1) : d[k] = 0
                 THEN 1 ELSE 0) + LimbBase) % LimbBase]

\* a - b for a >= b
BSub(x, y) ==
    Let2(x, y, LAMBDA a, b :
        IF b = <<>> THEN a
        ELSE BNorm(Let([i \in 1..Len(a) |-> BLimb(a, i) - BLimb(b, i)], BBorrowed)))

\* -1, 0, 1 as a <, =, > b
BCmp(x, y) ==
    Let2(x, y, LAMBDA a, b :
        IF Len(a) < Len(b) THEN -1
        ELSE IF Len(a) > Len(b) THEN 1
        ELSE Let({i \in 1..Len(a) : a[i] /= b[i]}, LAMBDA differ :
                 IF differ = {} THEN 0
                 ELSE IF a[SetMax(differ)] < b[SetMax(differ)] THEN -1 ELSE 1))

\* a * k for 0 <= k < LimbBase: the low halves of the limb products plus
\* their high halves one limb up
BMulSmall(x, k) ==
    Let(x, LAMBDA a :
        IF a = <<>> \/ k = 0 THEN <<>>
        ELSE BAdd([i \in 1..Len(a) |-> (a[i] * k) % LimbBase],
                  [i \in 1..(Len(a) + 1) |->
                      IF i = 1 THEN 0 ELSE (a[i - 1] * k) \div LimbBase]))

\* a * LimbBase^n
BShlLimbs(x, n) == Let(x, LAMBDA a : IF a = <<>> THEN <<>> ELSE [i \in 1..n |-> 0] \o a)

\* a * b, adding a * b[i] * LimbBase^(i - 1) for each limb of b
RECURSIVE BMulAt(_, _, _, _)
BMulAt(a, b, i, acc) ==
    IF i > Len(b) THEN acc
    ELSE Let(BAdd(acc, BShlLimbs(BMulSmall(a, b[i]), i - 1)),
             LAMBDA next : BMulAt(a, b, i + 1, next))
BMul(x, y) ==
    Let2(x, y, LAMBDA a, b :
        IF Len(a) < Len(b) THEN BMulAt(b, a, 1, <<>>) ELSE BMulAt(a, b, 1, <<>>))

\* a * 2^n
BShl(a, n) == BShlLimbs(BMulSmall(a, Pow2(n % LimbBits)), n \div LimbBits)

\* floor(a / 2^n)
BShrSmall(r, k) ==
    [i \in 1..Len(r) |->
        (r[i] \div Pow2(k)) + (BLimb(r, i + 1) % Pow2(k)) * Pow2(LimbBits - k)]
BShr(x, n) ==
    Let(x, LAMBDA a :
        IF a = <<>> \/ n = 0 THEN a
        ELSE IF n \div LimbBits >= Len(a) THEN <<>>
        ELSE BNorm(Let(SubSeq(a, (n \div LimbBits) + 1, Len(a)),
                       LAMBDA r : BShrSmall(r, n % LimbBits))))

\* the number of bits of 0 <= n < LimbBase, and of a
IntBitLen(n) == Cardinality({k \in 0..(LimbBits - 1) : Pow2(k) <= n})
BBitLen(a) == IF a = <<>> THEN 0 ELSE (Len(a) - 1) * LimbBits + IntBitLen(a[Len(a)])

\* bit i (0 = least significant) of a
BBit(a, i) == (BLimb(a, (i \div LimbBits) + 1) \div Pow2(i % LimbBits)) % 2

\* number of trailing zero bits of 0 < n < LimbBase, and of a /= 0
IntTrail(n) == Cardinality({k \in 1..LimbBits : n % Pow2(k) = 0})
BTrail(a) ==
    Let(SetMin({j \in 1..Len(a) : a[j] /= 0}),
        LAMBDA i : (i - 1) * LimbBits + IntTrail(a[i]))

\* a mod 2^n = 0, for a /= 0
BLowZero(a, n) == BTrail(a) >= n

\* Long division in base LimbBase, for b with the highest bit of its top
\* limb set.  BDigit is the next quotient limb, the largest d with
\* d * b <= r, for r < b * LimbBase: the quotient of the top limbs is d,
\* d + 1 or d + 2.
BDigit(r, b) ==
    LET est  == (BLimb(r, Len(b) + 1) * LimbBase + BLimb(r, Len(b))) \div b[Len(b)]
        qhat == IF est > LimbBase - 1 THEN LimbBase - 1 ELSE est
    IN  IF BCmp(BMulSmall(b, qhat), r) <= 0 THEN qhat
        ELSE IF BCmp(BMulSmall(b, qhat - 1), r) <= 0 THEN qhat - 1
        ELSE qhat - 2

\* one step of the division: r is the remainder so far with the next limb
\* of a brought down, and the quotient limb is put in front of q
BDivStep(b, q, r) == Let(BDigit(r, b), LAMBDA d : <<<<d>> \o q, BSub(r, BMulSmall(b, d))>>)

\* <<q, a mod b>>, with floor(a / b) the value of the limbs q
RECURSIVE BDivAt(_, _, _, _)
BDivAt(a, b, i, qr) ==
    IF i = 0 THEN qr
    ELSE Let(Let(BNorm(<<a[i]>> \o qr[2]), LAMBDA r : BDivStep(b, qr[1], r)),
             LAMBDA next : BDivAt(a, b, i - 1, next))
BDivMod(x, y) == Let2(x, y, LAMBDA a, b : BDivAt(a, b, Len(a), <<<<>>, <<>>>>))

(***************************************************************************)
(* IEEE-754 binary64 values and arithmetic.                                *)
(***************************************************************************)
FZero == [sgn |-> 1, m |-> <<>>, e |-> 0]

\* the canonical form of sgn * m * 2^e: m odd, or zero
FCanon(sgn, m, e) ==
    Let(m, LAMBDA a :
        IF a = <<>> THEN FZero
        ELSE Let(BTrail(a), LAMBDA t : [sgn |-> sgn, m |-> BShr(a, t), e |-> e + t]))

\* sgn * m * 2^e, for m of more than MantBits bits, rounded to MantBits bits
\* by dropping the low k bits: to nearest, ties to even
FRoundOff(sgn, a, e, k) ==
    IF BBit(a, k - 1) = 1 /\ (~BLowZero(a, k - 1) \/ BBit(a, k) = 1)
    THEN FCanon(sgn, BAdd(BShr(a, k), <<1>>), e + k)
    ELSE FCanon(sgn, BShr(a, k), e + k)

\* sgn * m * 2^e rounded to MantBits bits, to nearest, ties to even
FRound(sgn, m, e) ==
    Let(m, LAMBDA a :
        IF a = <<>> THEN FZero
        ELSE IF BBitLen(a) <= MantBits THEN FCanon(sgn, a, e)
        ELSE FRoundOff(sgn, a, e, BBitLen(a) - MantBits))

FFromInt(n) == IF n < 0 THEN FCanon(-1, BFromInt(-n), 0) ELSE FCanon(1, BFromInt(n), 0)

FIsZero(x) == x.m = <<>>
FNeg(x) == Let(x, LAMBDA a : IF FIsZero(a) THEN a ELSE [a EXCEPT !.sgn = -a.sgn])

\* the smaller of two exponents
MinExp(e1, e2) == IF e1 < e2 THEN e1 ELSE e2

\* -1, 0, 1 as |x| <, =, > |y|, for x and y not zero
FCmpAbs(x, y) ==
    IF x.e + BBitLen(x.m) < y.e + BBitLen(y.m) THEN -1
    ELSE IF x.e + BBitLen(x.m) > y.e + BBitLen(y.m) THEN 1
    ELSE BCmp(BShl(x.m, x.e - MinExp(x.e, y.e)), BShl(y.m, y.e - MinExp(x.e, y.e)))

\* -1, 0, 1 as x <, =, > y
FCmp(x1, x2) ==
    Let2(x1, x2, LAMBDA x, y :
        IF FIsZero(x) /\ FIsZero(y) THEN 0
        ELSE IF FIsZero(x) THEN -y.sgn
        ELSE IF FIsZero(y) THEN x.sgn
        ELSE IF x.sgn /= y.sgn THEN x.sgn
        ELSE x.sgn * FCmpAbs(x, y))

FGe(x, y) == FCmp(x, y) >= 0
FLe(x, y) == FCmp(x, y) <= 0
FLt(x, y) == FCmp(x, y) < 0

\* x + y and x * y exactly: the real sum and product, before rounding
XAddAligned(x, y, mx, my, e) ==
    IF x.sgn = y.sgn THEN FCanon(x.sgn, BAdd(mx, my), e)
    ELSE IF BCmp(mx, my) >= 0 THEN FCanon(x.sgn, BSub(mx, my), e)
    ELSE FCanon(y.sgn, BSub(my, mx), e)

XAdd(x1, x2) ==
    Let2(x1, x2, LAMBDA x, y :
        IF FIsZero(x) THEN y
        ELSE IF FIsZero(y) THEN x
        ELSE Let2(BShl(x.m, x.e - MinExp(x.e, y.e)), BShl(y.m, y.e - MinExp(x.e, y.e)),
                  LAMBDA mx, my : XAddAligned(x, y, mx, my, MinExp(x.e, y.e))))

XMul(x1, x2) ==
    Let2(x1, x2, LAMBDA x, y : FCanon(x.sgn * y.sgn, BMul(x.m, y.m), x.e + y.e))

\* the float operations x + y and x * y
FAdd(x, y) == Let(XAdd(x, y), LAMBDA z : FRound(z.sgn, z.m, z.e))
FMul(x, y) == Let(XMul(x, y), LAMBDA z : FRound(z.sgn, z.m, z.e))

\* x / y for x /= 0 and y /= 0, from the quotient and remainder of
\* (x.m * 2^k) / y.m, both shifted up by s bits for the long division: the
\* quotient has at least MantBits + 2 bits and takes a sticky bit below it
\* when the remainder is not zero
FDivBy(x, y, k, s) ==
    Let(BDivMod(BShl(x.m, k + s), BShl(y.m, s)), LAMBDA qr :
        FRound(x.sgn * y.sgn,
               BAdd(BMulSmall(qr[1], 2), IF qr[2] = <<>> THEN <<>> ELSE <<1>>),
               x.e - y.e - k - 1))

\* the float operation x / y, for y /= 0
FDiv(x1, x2) ==
    Let2(x1, x2, LAMBDA x, y :
        IF FIsZero(x) THEN FZero
        ELSE FDivBy(x, y, MantBits + 2 + BBitLen(y.m) - BBitLen(x.m),
                    LimbBits - IntBitLen(y.m[Len(y.m)])))

F0   == FFromInt(0)
F3   == FFromInt(3)
F20  == FFromInt(20)
F30  == FFromInt(30)
F40  == FFromInt(40)
F50  == FFromInt(50)
F60  == FFromInt(60)
F70  == FFromInt(70)
F80  == FFromInt(80)
F85  == FFromInt(85)
F90  == FFromInt(90)
F100 == FFromInt(100)

(***************************************************************************)
(* esg.py: ESGRating                                                       *)
(***************************************************************************)
None == "None"

\* list(ESGRating): the members in definition order, D (lowest) to AAA
RatingOrder == <<"D", "C", "CC", "CCC", "B", "BB", "BBB", "A", "AA", "AAA">>
Ratings == {RatingOrder[i] : i \in 1..Len(RatingOrder)}

\* rating_order.index(r), counted from 1
RatingIndex(r) == CHOOSE i \in 1..Len(RatingOrder) : RatingOrder[i] = r

\* from_score with the bound of AA exclusive
from_score_exclusive(score) ==
    IF FGe(score, F90) THEN "AAA"
    ELSE IF FCmp(score, F85) > 0 THEN "AA"
    ELSE IF FGe(score, F80) THEN "A"
    ELSE IF FGe(score, F70) THEN "BBB"
    ELSE IF FGe(score, F60) THEN "BB"
    ELSE IF FGe(score, F50) THEN "B"
    ELSE IF FGe(score, F40) THEN "CCC"
    ELSE IF FGe(score, F30) THEN "CC"
    ELSE IF FGe(score, F20) THEN "C"
    ELSE "D"

from_score(score) ==
    IF FGe(score, F90) THEN "AAA"
    ELSE IF FGe(score, F85) THEN "AA"
    ELSE IF FGe(score, F80) THEN "A"
    ELSE IF FGe(score, F70) THEN "BBB"
    ELSE IF FGe(score, F60) THEN "BB"
    ELSE IF FGe(score, F50) THEN "B"
    ELSE IF FGe(score, F40) THEN "CCC"
    ELSE IF FGe(score, F30) THEN "CC"
    ELSE IF FGe(score, F20) THEN "C"
    ELSE "D"

\* investment grade taken as strictly above BBB
ESGRating_is_investment_grade_above_bbb(self) == self \in {"AAA", "AA", "A"}

\* ESGRating.is_investment_grade: self in (AAA, AA, A, BBB)
ESGRating_is_investment_grade(self) == self \in {"AAA", "AA", "A", "BBB"}

(***************************************************************************)
(* esg.py: ESGScore.  A call returns [ok |-> TRUE, value |-> v] or raises: *)
(* [ok |-> FALSE, error |-> name of the exception].                        *)
(***************************************************************************)
Return(v) == [ok |-> TRUE, value |-> v]
Raise(e)  == [ok |-> FALSE, error |-> e]
NoCall    == [ok |-> FALSE, error |-> None]

\* a field that is only checked against its lower bound
InRange_ge_only(x) == FGe(x, F0)

\* Field(ge=0.0, le=100.0)
InRange(x) == FGe(x, F0) /\ FLe(x, F100)

\* ESGScore(environmental=, social=, governance=, total=, rating=): pydantic
\* validates the four ranges and that rating is a member of ESGRating
ESGScore(environmental, social, governance, total, rating) ==
    IF /\ InRange(environmental)
       /\ InRange(social)
       /\ InRange(governance)
       /\ InRange(total)
       /\ rating \in Ratings
    THEN Return([environmental |-> environmental, social |-> social,
                 governance |-> governance, total |-> total, rating |-> rating])
    ELSE Raise("ValidationError")

ESGScore_create(environmental, social, governance) ==
    Let(FDiv(FAdd(FAdd(environmental, social), governance), F3), LAMBDA total :
        Let(from_score(total), LAMBDA rating :
            ESGScore(environmental, social, governance, total, rating)))

\* ESGScore.is_investment_grade(): self.rating.is_investment_grade
is_investment_grade(self) == ESGRating_is_investment_grade(self.rating)

(***************************************************************************)
(* esg.py: ESGScoring                                                      *)
(***************************************************************************)
\* a constructor that keeps the weights as given, without normalising
ESGScoring_unnormalised(environmental_weight, social_weight, governance_weight) ==
    Let(FAdd(FAdd(environmental_weight, social_weight), governance_weight), LAMBDA total :
        IF FIsZero(total) THEN Raise("ZeroDivisionError")
        ELSE Return([environmental_weight |-> environmental_weight,
                     social_weight        |-> social_weight,
                     governance_weight    |-> governance_weight]))

\* ESGScoring(environmental_weight, social_weight, governance_weight)
ESGScoring(environmental_weight, social_weight, governance_weight) ==
    Let(FAdd(FAdd(environmental_weight, social_weight), governance_weight), LAMBDA total :
        IF FIsZero(total) THEN Raise("ZeroDivisionError")
        ELSE Return([environmental_weight |-> FDiv(environmental_weight, total),
                     social_weight        |-> FDiv(social_weight, total),
                     governance_weight    |-> FDiv(governance_weight, total)]))

\* the default weights 1.0 / 3.0
DefaultWeight == FDiv(FFromInt(1), F3)

calculate(self, environmental, social, governance) ==
    Let(FAdd(FAdd(FMul(environmental, self.environmental_weight),
                  FMul(social, self.social_weight)),
             FMul(governance, self.governance_weight)), LAMBDA weighted_total :
        Let(from_score(weighted_total), LAMBDA rating :
            ESGScore(environmental, social, governance, weighted_total, rating)))

(***************************************************************************)
(* compliance.py: enumerations, ComplianceRule, ComplianceResult           *)
(***************************************************************************)
Frameworks    == {"EU_SFDR", "EU_Taxonomy", "SEC_Climate", "MiFID_II", "Basel"}
Jurisdictions == {"EU", "US", "UK", "BRAZIL", "GLOBAL"}
Categories    == {"KYC_AML", "ESG_Disclosure", "InvestmentRestriction", "Reporting",
                  "RiskManagement"}
Statuses      == {"compliant", "partially_compliant", "non_compliant", "pending",
                  "not_applicable"}

\* at_time or datetime.now(): a datetime is never falsy
OrNow(at_time, now) == IF at_time = <<>> THEN now[1] ELSE at_time[1]

\* is_effective with the end of the window excluded
is_effective_until_exclusive(self, at_time, now) ==
    LET check_time == OrNow(at_time, now)
    IN  IF check_time < self.effective_from THEN FALSE
        ELSE IF self.effective_until /= <<>> /\ check_time >= self.effective_until[1] THEN FALSE
        ELSE TRUE

\* ComplianceRule.is_effective(at_time); effective_until is <<>> (None) or <<t>>
is_effective(self, at_time, now) ==
    LET check_time == OrNow(at_time, now)
    IN  IF check_time < self.effective_from THEN FALSE
        ELSE IF self.effective_until /= <<>> /\ check_time > self.effective_until[1] THEN FALSE
        ELSE TRUE

\* applies_to with a query for GLOBAL matching every rule
applies_to_global_query(self, jurisdiction) ==
    self.jurisdiction = jurisdiction \/ self.jurisdiction = "GLOBAL" \/ jurisdiction = "GLOBAL"

\* ComplianceRule.applies_to(jurisdiction)
applies_to(self, jurisdiction) ==
    self.jurisdiction = jurisdiction \/ self.jurisdiction = "GLOBAL"

\* a result that records not_applicable as pending
ComplianceResult_pending(rule_id, status, message) ==
    [rule_id |-> rule_id, status |-> IF status = "not_applicable" THEN "pending" ELSE status,
     message |-> message]

\* ComplianceResult(rule_id=, status=, message=); checked_at, the wall-clock
\* time of creation, is read by no operation and is left out
ComplianceResult(rule_id, status, message) ==
    [rule_id |-> rule_id, status |-> status, message |-> message]

\* a parse that falls back to the lowest rating instead of raising
ESGRating_lenient(value) == IF value \in Ratings THEN Return(value) ELSE Return("D")

\* ESGRating(value): the member with that value, or ValueError
ESGRating(value) == IF value \in Ratings THEN Return(value) ELSE Raise("ValueError")

(***************************************************************************)
(* compliance.py: ComplianceValidator                                      *)
(***************************************************************************)
\* __init__: self.rules = []
ComplianceValidator == <<>>

\* self.rules.append(rule)
add_rule(rules, rule) == Append(rules, rule)

\* an extend that skips a rule the list already holds
RECURSIVE add_rules_unique(_, _)
add_rules_unique(rules, new) ==
    IF new = <<>> THEN rules
    ELSE add_rules_unique(IF \E i \in 1..Len(rules) : rules[i] = Head(new) THEN rules
                          ELSE Append(rules, Head(new)),
                          Tail(new))

\* self.rules.extend(rules)
add_rules(rules, new) == rules \o new

\* a strict comparison in place of >=
meets_requirement_strict(esg_score, required_rating) ==
    RatingIndex(esg_score.rating) > RatingIndex(required_rating)

\* rating_order.index(esg_score.rating) >= rating_order.index(required_rating)
meets_requirement(esg_score, required_rating) ==
    RatingIndex(esg_score.rating) >= RatingIndex(required_rating)

\* validate_rule with the filter test placed before the effectiveness test
validate_rule_filters_first(rule, esg_score, jurisdiction, framework, category, check_time, now) ==
    IF \/ ~applies_to(rule, jurisdiction)
       \/ rule.framework /= framework
       \/ rule.category /= category
    THEN ComplianceResult(rule.id, "not_applicable", "Rule not applicable for given filters")
    ELSE IF ~is_effective(rule, <<check_time>>, now)
    THEN ComplianceResult(rule.id, "not_applicable", "Rule not currently effective")
    ELSE IF rule.required_esg_rating = <<>>
    THEN ComplianceResult(rule.id, "not_applicable", "No ESG rating requirement")
    ELSE LET required_rating == ESGRating(rule.required_esg_rating[1])
         IN  IF ~required_rating.ok
             THEN ComplianceResult(rule.id, "non_compliant", "Invalid required ESG rating")
             ELSE IF meets_requirement(esg_score, required_rating.value)
             THEN ComplianceResult(rule.id, "compliant",
                      "ESG rating " \o esg_score.rating \o " meets requirement")
             ELSE ComplianceResult(rule.id, "non_compliant",
                      "ESG rating " \o esg_score.rating \o " does not meet requirement of "
                          \o rule.required_esg_rating[1])

\* the body of validate_esg's loop: the result appended for one rule;
\* required_esg_rating is <<>> (None) or <<string>>
validate_rule(rule, esg_score, jurisdiction, framework, category, check_time, now) ==
    IF ~is_effective(rule, <<check_time>>, now)
    THEN ComplianceResult(rule.id, "not_applicable", "Rule not currently effective")
    ELSE IF \/ ~applies_to(rule, jurisdiction)
            \/ rule.framework /= framework
            \/ rule.category /= category
    THEN ComplianceResult(rule.id, "not_applicable", "Rule not applicable for given filters")
    ELSE IF rule.required_esg_rating = <<>>
    THEN ComplianceResult(rule.id, "not_applicable", "No ESG rating requirement")
    ELSE LET required_rating == ESGRating(rule.required_esg_rating[1])
         IN  IF ~required_rating.ok
             THEN ComplianceResult(rule.id, "non_compliant", "Invalid required ESG rating")
             ELSE IF meets_requirement(esg_score, required_rating.value)
             THEN ComplianceResult(rule.id, "compliant",
                      "ESG rating " \o esg_score.rating \o " meets requirement")
             ELSE ComplianceResult(rule.id, "non_compliant",
                      "ESG rating " \o esg_score.rating \o " does not meet requirement of "
                          \o rule.required_esg_rating[1])

\* the loop with break in place of continue at a rule that is not effective
RECURSIVE validate_from_break(_, _, _, _, _, _, _, _)
validate_from_break(rules, i, esg_score, jurisdiction, framework, category, check_time, now) ==
    IF i > Len(rules) THEN <<>>
    ELSE <<validate_rule(rules[i], esg_score, jurisdiction, framework, category,
                         check_time, now)>>
         \o (IF ~is_effective(rules[i], <<check_time>>, now) THEN <<>>
             ELSE validate_from_break(rules, i + 1, esg_score, jurisdiction, framework,
                                      category, check_time, now))

\* the loop of validate_esg from rule i on: results in rule order
RECURSIVE validate_from(_, _, _, _, _, _, _, _)
validate_from(rules, i, esg_score, jurisdiction, framework, category, check_time, now) ==
    IF i > Len(rules) THEN <<>>
    ELSE <<validate_rule(rules[i], esg_score, jurisdiction, framework, category,
                         check_time, now)>>
         \o validate_from(rules, i + 1, esg_score, jurisdiction, framework, category,
                          check_time, now)

validate_esg(rules, esg_score, jurisdiction, framework, category, at_time, now) ==
    LET check_time == OrNow(at_time, now)
    IN  validate_from(rules, 1, esg_score, jurisdiction, framework, category, check_time, now)

\* the flags overall_status sets while it reads results from index i on
RECURSIVE overall_flags(_, _, _)
overall_flags(results, i, flags) ==
    IF i > Len(results) THEN flags
    ELSE LET status == results[i].status
         IN  overall_flags(results, i + 1,
                 IF status = "non_compliant" THEN [flags EXCEPT !.has_non_compliant = TRUE]
                 ELSE IF status = "partially_compliant"
                      THEN [flags EXCEPT !.has_partially_compliant = TRUE]
                 ELSE IF status = "compliant" THEN [flags EXCEPT !.has_compliant = TRUE]
                 ELSE IF status = "pending" THEN [flags EXCEPT !.has_pending = TRUE]
                 ELSE flags)

\* overall_status with pending ranked below partially_compliant
overall_status_swapped(results) ==
    LET flags == overall_flags(results, 1,
                     [has_non_compliant |-> FALSE, has_partially_compliant |-> FALSE,
                      has_compliant |-> FALSE, has_pending |-> FALSE])
    IN  IF flags.has_non_compliant THEN "non_compliant"
        ELSE IF flags.has_partially_compliant THEN "partially_compliant"
        ELSE IF flags.has_pending THEN "pending"
        ELSE IF flags.has_compliant THEN "compliant"
        ELSE "not_applicable"

overall_status(results) ==
    LET flags == overall_flags(results, 1,
                     [has_non_compliant |-> FALSE, has_partially_compliant |-> FALSE,
                      has_compliant |-> FALSE, has_pending |-> FALSE])
    IN  IF flags.has_non_compliant THEN "non_compliant"
        ELSE IF flags.has_pending THEN "pending"
        ELSE IF flags.has_partially_compliant THEN "partially_compliant"
        ELSE IF flags.has_compliant THEN "compliant"
        ELSE "not_applicable"

(***************************************************************************)
(* iso20022.py: ISO20022Bridge                                             *)
(***************************************************************************)
\* map_sfdr_article with BB placed in the lowest article
map_sfdr_article_bb_low(rating) ==
    IF rating \in {"AAA", "AA", "A"} THEN 9
    ELSE IF rating \in {"BBB"} THEN 8
    ELSE 6

\* ISO20022Bridge.map_sfdr_article(rating)
map_sfdr_article(rating) ==
    IF rating \in {"AAA", "AA", "A"} THEN 9
    ELSE IF rating \in {"BBB", "BB"} THEN 8
    ELSE 6

\* Python's min(a, b): b if b < a, else a
min(a, b) == IF FLt(b, a) THEN b ELSE a

\* calculate_taxonomy_alignment reading the total in place of the
\* environmental component
calculate_taxonomy_alignment_total(score) ==
    Let(score.total, LAMBDA env :
        IF FGe(env, F80) THEN min(env, F100)
        ELSE IF FGe(env, F60) THEN FMul(FAdd(env, FNeg(F60)), FFromInt(2))
        ELSE F0)

\* ISO20022Bridge.calculate_taxonomy_alignment(score)
calculate_taxonomy_alignment(score) ==
    Let(score.environmental, LAMBDA env :
        IF FGe(env, F80) THEN min(env, F100)
        ELSE IF FGe(env, F60) THEN FMul(FAdd(env, FNeg(F60)), FFromInt(2))
        ELSE F0)

\* FinancialInstrument(isin=, lei=, name=)
FinancialInstrument(isin, lei, name) == [isin |-> isin, lei |-> lei, name |-> name]

\* ESGClassification(taxonomy_alignment=, sfdr_article=, erc8040_rating=,
\* carbon_intensity=): a dataclass, which validates nothing;
\* carbon_intensity is <<>> (None) or <<float>>
ESGClassification(taxonomy_alignment, sfdr_article, erc8040_rating, carbon_intensity) ==
    [taxonomy_alignment |-> taxonomy_alignment, sfdr_article |-> sfdr_article,
     erc8040_rating |-> erc8040_rating, carbon_intensity |-> carbon_intensity]

DecimalDigits == <<"0", "1", "2", "3", "4", "5", "6", "7", "8", "9">>

\* the decimal digits of n >= 0
RECURSIVE str_nat(_)
str_nat(n) ==
    IF n < 10 THEN DecimalDigits[n + 1]
    ELSE str_nat(n \div 10) \o DecimalDigits[(n % 10) + 1]

\* what an f-string puts for an int: str(n)
str_int(n) == IF n < 0 THEN "-" \o str_nat(-n) ELSE str_nat(n)

\* the value of a bignum that fits an int
RECURSIVE BToInt(_)
BToInt(a) == IF a = <<>> THEN 0 ELSE a[1] + LimbBase * BToInt(Tail(a))

\* the digits after the point of thousandths / 1000, for thousandths in
\* 0..999: at least one digit, and no zero at the end of more than one
str_fraction(thousandths) ==
    DecimalDigits[(thousandths \div 100) + 1]
        \o (IF thousandths % 100 = 0 THEN ""
            ELSE DecimalDigits[((thousandths \div 10) % 10) + 1]
                     \o (IF thousandths % 10 = 0 THEN ""
                         ELSE DecimalDigits[(thousandths % 10) + 1]))

\* what an f-string puts for a float: repr(x), the shortest decimal that
\* reads back as x, in positional notation with at least one digit after
\* the point.  Defined for the multiples of 1/8 of magnitude below 2^20,
\* whose exact decimal expansion is that shortest decimal.
str_float(x) ==
    Let(BToInt(BShl(x.m, x.e + 3)), LAMBDA eighths :
        (IF x.sgn < 0 THEN "-" ELSE "")
            \o str_nat(eighths \div 8) \o "." \o str_fraction((eighths % 8) * 125))

\* '\n'.join(parts)
RECURSIVE join(_, _)
join(sep, parts) ==
    IF parts = <<>> THEN ""
    ELSE IF Len(parts) = 1 THEN parts[1]
    ELSE parts[1] \o sep \o join(sep, Tail(parts))

\* create_setr_message with an element for the carbon intensity, when there
\* is one
create_setr_message_with_carbon(instrument, esg) ==
    Let(<<"<?xml version=\"1.0\" encoding=\"UTF-8\"?>",
          "<Document xmlns=\"urn:iso:std:iso:20022:tech:xsd:setr.010.001.04\">",
          "  <SctiesTradConf>",
          "    <FinInstrmId>",
          "      <ISIN>" \o instrument.isin \o "</ISIN>",
          "      <LEI>" \o instrument.lei \o "</LEI>",
          "      <Nm>" \o instrument.name \o "</Nm>",
          "    </FinInstrmId>",
          "    <ESGClssfctn>",
          "      <TaxnmyAlgnmt>" \o str_float(esg.taxonomy_alignment) \o "</TaxnmyAlgnmt>",
          "      <SFDRArtcl>" \o str_int(esg.sfdr_article) \o "</SFDRArtcl>",
          "      <ERC8040Rtg>" \o esg.erc8040_rating \o "</ERC8040Rtg>">>
        \o (IF esg.carbon_intensity = <<>> THEN <<>>
            ELSE <<"      <CrbnIntnsty>" \o str_float(esg.carbon_intensity[1])
                       \o "</CrbnIntnsty>">>)
        \o <<"    </ESGClssfctn>",
             "  </SctiesTradConf>",
             "</Document>">>,
        LAMBDA xml_parts : join("\n", xml_parts))

\* ISO20022Bridge.create_setr_message(instrument, esg)
create_setr_message(instrument, esg) ==
    Let(<<"<?xml version=\"1.0\" encoding=\"UTF-8\"?>",
          "<Document xmlns=\"urn:iso:std:iso:20022:tech:xsd:setr.010.001.04\">",
          "  <SctiesTradConf>",
          "    <FinInstrmId>",
          "      <ISIN>" \o instrument.isin \o "</ISIN>",
          "      <LEI>" \o instrument.lei \o "</LEI>",
          "      <Nm>" \o instrument.name \o "</Nm>",
          "    </FinInstrmId>",
          "    <ESGClssfctn>",
          "      <TaxnmyAlgnmt>" \o str_float(esg.taxonomy_alignment) \o "</TaxnmyAlgnmt>",
          "      <SFDRArtcl>" \o str_int(esg.sfdr_article) \o "</SFDRArtcl>",
          "      <ERC8040Rtg>" \o esg.erc8040_rating \o "</ERC8040Rtg>",
          "    </ESGClssfctn>",
          "  </SctiesTradConf>",
          "</Document>">>,
        LAMBDA xml_parts : join("\n", xml_parts))

(***************************************************************************)
(* State.                                                                  *)
(*   rules    the ComplianceValidator's rule list                          *)
(*   scoring  the ESGScoring calculator the caller holds: <<c>>, or <<>>   *)
(*            while there is none                                          *)
(*   given    the weights that calculator was constructed with             *)
(*   call     the last call: its name and arguments (NoOp: none)           *)
(*   ret      what that call returned or raised                            *)
(*   last     the call before it and what it returned                      *)
(* An optional value (None in Python) is <<>> or <<v>>.                    *)
(***************************************************************************)
VARIABLES rules, scoring, given, call, ret, last

vars == <<rules, scoring, given, call, ret, last>>

NoOp   == [op |-> None, args |-> <<>>]
NoLast == [call |-> NoOp, ret |-> NoCall]

\* the caller is between calls: the last return value has been dropped
Idle == call.op = None

InitState ==
    /\ rules = ComplianceValidator
    /\ scoring = <<>>
    /\ given = <<>>
    /\ call = NoOp
    /\ ret = NoCall
    /\ last = NoLast

\* the caller drops the values the calls returned
Discard ==
    /\ ~Idle
    /\ call' = NoOp
    /\ ret' = NoCall
    /\ last' = NoLast
    /\ UNCHANGED <<rules, scoring, given>>

(***************************************************************************)
(* The scoring operations and their inputs.                                *)
(***************************************************************************)
MaxWeight == 2
MaxFactor == 3
WeightInputs == {FFromInt(w) : w \in {-1} \cup 0..MaxWeight}

\* component scores, with values below 0 and above 100
ScoreInputs == {FFromInt(n) : n \in {-10, 0, 40, 60, 80, 110}}

\* fields given to the ESGScore constructor directly
FieldInputs  == {FFromInt(n) : n \in {0, 80, 110}}
TotalInputs  == {FFromInt(n) : n \in {-10, 0, 80, 110}}
RatingInputs == {"D", "A", "AAA", "XX"}

\* scoring = ESGScoring(we, ws, wg)
NewScoring ==
    /\ Idle
    /\ \E we \in WeightInputs, ws \in WeightInputs, wg \in WeightInputs :
         \E r \in {ESGScoring(we, ws, wg)} :
             /\ call' = [op |-> "ESGScoring", args |-> <<we, ws, wg>>]
             /\ ret' = r
             /\ scoring' = IF r.ok THEN <<r.value>> ELSE scoring
             /\ given' = IF r.ok THEN <<we, ws, wg>> ELSE given
    /\ UNCHANGED <<rules, last>>

\* scoring = ESGScoring()
NewDefaultScoring ==
    /\ Idle
    /\ \E w \in {DefaultWeight} :
         \E r \in {ESGScoring(w, w, w)} :
             /\ call' = [op |-> "ESGScoring", args |-> <<w, w, w>>]
             /\ ret' = r
             /\ scoring' = IF r.ok THEN <<r.value>> ELSE scoring
             /\ given' = IF r.ok THEN <<w, w, w>> ELSE given
    /\ UNCHANGED <<rules, last>>

\* scoring.calculate(e, s, g)
Calculate ==
    /\ Idle
    /\ scoring /= <<>>
    /\ \E e \in ScoreInputs, s \in ScoreInputs, g \in ScoreInputs :
         /\ call' = [op |-> "calculate", args |-> <<e, s, g>>]
         /\ ret' = calculate(scoring[1], e, s, g)
    /\ UNCHANGED <<rules, scoring, given, last>>

\* ESGScore.create(e, s, g)
Create ==
    /\ Idle
    /\ \E e \in ScoreInputs, s \in ScoreInputs, g \in ScoreInputs :
         /\ call' = [op |-> "create", args |-> <<e, s, g>>]
         /\ ret' = ESGScore_create(e, s, g)
    /\ UNCHANGED <<rules, scoring, given, last>>

\* ESGScore(environmental=e, social=s, governance=g, total=t, rating=r)
NewScore ==
    /\ Idle
    /\ \E e \in FieldInputs, s \in FieldInputs, g \in FieldInputs,
          t \in TotalInputs, r \in RatingInputs :
         /\ call' = [op |-> "ESGScore", args |-> <<e, s, g, t, r>>]
         /\ ret' = ESGScore(e, s, g, t, r)
    /\ UNCHANGED <<rules, scoring, given, last>>

\* score.is_investment_grade() on the score the last call returned
IsInvestmentGrade ==
    /\ call.op \in {"create", "calculate", "ESGScore"}
    /\ ret.ok
    /\ call' = [op |-> "is_investment_grade", args |-> <<ret.value>>]
    /\ ret' = Return(is_investment_grade(ret.value))
    /\ last' = [call |-> call, ret |-> ret]
    /\ UNCHANGED <<rules, scoring, given>>

\* rating.is_investment_grade
RatingIsInvestmentGrade ==
    /\ Idle
    /\ \E rating \in Ratings :
         /\ call' = [op |-> "ESGRating.is_investment_grade", args |-> <<rating>>]
         /\ ret' = Return(ESGRating_is_investment_grade(rating))
    /\ UNCHANGED <<rules, scoring, given, last>>

NextScore ==
    \/ NewScoring
    \/ NewDefaultScoring
    \/ Calculate
    \/ Create
    \/ NewScore
    \/ IsInvestmentGrade
    \/ RatingIsInvestmentGrade
    \/ Discard

SpecScore == InitState /\ [][NextScore]_vars

(***************************************************************************)
(* ESGRating.from_score on its own.                                        *)
(***************************************************************************)
\* the lower bounds of the ratings above D
Thresholds == {F20, F30, F40, F50, F60, F70, F80, F85, F90}

\* the largest float below x, for x > 0 not a power of two
FPred(x) ==
    Let(MantBits - BBitLen(x.m), LAMBDA k :
        FCanon(x.sgn, BSub(BShl(x.m, k), <<1>>), x.e - k))

\* 0.5
FHalf == [sgn |-> 1, m |-> <<1>>, e |-> -1]

\* each bound, its neighbour below, a value inside each band, and values
\* outside [0, 100]
ProbeInputs ==
    Thresholds \cup {FPred(t) : t \in Thresholds} \cup {FAdd(t, FHalf) : t \in Thresholds}
        \cup {FFromInt(n) : n \in {-20, 0, 10, 100, 200}}

\* ESGRating.from_score(x)
FromScore ==
    /\ \E x \in ProbeInputs :
         /\ call' = [op |-> "from_score", args |-> <<x>>]
         /\ ret' = Return(from_score(x))
    /\ last' = [call |-> call, ret |-> ret]
    /\ UNCHANGED <<rules, scoring, given>>

NextRating == FromScore \/ Discard

SpecRating == InitState /\ [][NextRating]_vars

(***************************************************************************)
(* The validator's operations and their inputs.                            *)
(***************************************************************************)
MaxRules == 2
MaxTime  == 2
Times    == 0..MaxTime

Rule(id, jurisdiction, effective_until, required_esg_rating) ==
    [id |-> id, framework |-> "EU_SFDR", jurisdiction |-> jurisdiction,
     category |-> "ESG_Disclosure", severity |-> "HIGH", description |-> "",
     effective_from |-> 1, effective_until |-> effective_until,
     required_esg_rating |-> required_esg_rating]

\* every jurisdiction, window and requirement under one id, and two rules
\* under a second id
RuleInputs ==
    {Rule("R1", j, until, req) :
        j \in {"EU", "GLOBAL"}, until \in {<<>>, <<1>>},
        req \in {<<>>, <<"BBB">>, <<"INVALID">>}}
    \cup {Rule("R2", "EU", <<>>, <<"BBB">>), Rule("R2", "GLOBAL", <<1>>, <<"INVALID">>)}

\* lists of at most n rules
RuleLists(n) == UNION {[1..k -> RuleInputs] : k \in 0..n}

\* scores of rating D, BB, BBB and A
ValidatorScores ==
    {ESGScore_create(FFromInt(v[1]), FFromInt(v[2]), FFromInt(v[3])).value :
        v \in {<<0, 0, 0>>, <<60, 60, 60>>, <<80, 80, 60>>, <<80, 80, 80>>}}

QueryJurisdictions == {"EU", "US"}
QueryFilters == {<<"EU_SFDR", "ESG_Disclosure">>, <<"EU_Taxonomy", "ESG_Disclosure">>,
                 <<"EU_SFDR", "Reporting">>}
AtTimes == {<<>>} \cup {<<t>> : t \in Times}

\* what datetime.now() returns to a call that reads it (<<>>: it is not read)
ClockReads(at_time) == IF at_time = <<>> THEN {<<t>> : t \in Times} ELSE {<<>>}

\* validator.add_rule(rule)
AddRule ==
    /\ Idle
    /\ Len(rules) < MaxRules
    /\ \E rule \in RuleInputs :
         /\ call' = [op |-> "add_rule", args |-> <<rule>>]
         /\ rules' = add_rule(rules, rule)
    /\ ret' = Return(None)
    /\ UNCHANGED <<scoring, given, last>>

\* validator.add_rules(list)
AddRules ==
    /\ Idle
    /\ \E list \in RuleLists(MaxRules - Len(rules)) :
         /\ call' = [op |-> "add_rules", args |-> <<list>>]
         /\ rules' = add_rules(rules, list)
    /\ ret' = Return(None)
    /\ UNCHANGED <<scoring, given, last>>

\* validator.validate_esg(esg_score, jurisdiction, framework, category, at_time)
ValidateEsg ==
    /\ Idle
    /\ \E esg_score \in ValidatorScores, jurisdiction \in QueryJurisdictions,
          filter \in QueryFilters, at_time \in AtTimes :
         \E now \in ClockReads(at_time) :
           /\ call' = [op |-> "validate_esg",
                       args |-> <<esg_score, jurisdiction, filter[1], filter[2], at_time, now>>]
           /\ ret' = Return(validate_esg(rules, esg_score, jurisdiction, filter[1],
                                         filter[2], at_time, now))
    /\ UNCHANGED <<rules, scoring, given, last>>

\* validator.overall_status(results) on the list validate_esg just returned
OverallStatus ==
    /\ call.op = "validate_esg"
    /\ call' = [op |-> "overall_status", args |-> <<ret.value>>]
    /\ ret' = Return(overall_status(ret.value))
    /\ last' = [call |-> call, ret |-> ret]
    /\ UNCHANGED <<rules, scoring, given>>

Next ==
    \/ AddRule
    \/ AddRules
    \/ ValidateEsg
    \/ OverallStatus
    \/ Discard

Spec == InitState /\ [][Next]_vars

(***************************************************************************)
(* overall_status on arbitrary result lists.                               *)
(***************************************************************************)
MaxResults == 4

ResultLists ==
    UNION {[1..k -> {ComplianceResult("R1", s, "") : s \in Statuses}] : k \in 0..MaxResults}

\* validator.overall_status(results)
OverallStatusOf ==
    /\ Idle
    /\ \E results \in ResultLists :
         /\ call' = [op |-> "overall_status", args |-> <<results>>]
         /\ ret' = Return(overall_status(results))
    /\ UNCHANGED <<rules, scoring, given, last>>

NextOverall == OverallStatusOf \/ Discard

SpecOverall == InitState /\ [][NextOverall]_vars

(***************************************************************************)
(* ComplianceRule.is_effective and ComplianceRule.applies_to on their own. *)
(***************************************************************************)
\* rules of every jurisdiction and every window over Times, the windows
\* whose end precedes their start included
WindowRules ==
    {[Rule("R1", j, until, <<>>) EXCEPT !.effective_from = from] :
        j \in Jurisdictions, from \in Times, until \in {<<>>} \cup {<<t>> : t \in Times}}

\* rule.is_effective(at_time)
IsEffective ==
    /\ Idle
    /\ \E rule \in WindowRules, at_time \in AtTimes :
         \E now \in ClockReads(at_time) :
           /\ call' = [op |-> "is_effective", args |-> <<rule, at_time, now>>]
           /\ ret' = Return(is_effective(rule, at_time, now))
    /\ UNCHANGED <<rules, scoring, given, last>>

\* rule.applies_to(jurisdiction)
AppliesTo ==
    /\ Idle
    /\ \E rule \in WindowRules, jurisdiction \in Jurisdictions :
         /\ call' = [op |-> "applies_to", args |-> <<rule, jurisdiction>>]
         /\ ret' = Return(applies_to(rule, jurisdiction))
    /\ UNCHANGED <<rules, scoring, given, last>>

NextRule == IsEffective \/ AppliesTo \/ Discard

SpecRule == InitState /\ [][NextRule]_vars

(***************************************************************************)
(* The bridge's operations and their inputs.                               *)
(***************************************************************************)
\* ISO20022Bridge().map_sfdr_article(rating)
MapSfdrArticle ==
    /\ call.op \in {None, "map_sfdr_article"}
    /\ \E rating \in Ratings :
         /\ call' = [op |-> "map_sfdr_article", args |-> <<rating>>]
         /\ ret' = Return(map_sfdr_article(rating))
    /\ last' = [call |-> call, ret |-> ret]
    /\ UNCHANGED <<rules, scoring, given>>

\* environmental components: the ends of each branch, their neighbours,
\* values inside, and values outside [0, 100]
EnvironmentalInputs ==
    {FFromInt(n) : n \in {-10, 0, 60, 75, 80, 90, 100, 110}}
        \cup {FPred(F60), FPred(F80), FAdd(F60, FHalf), FDiv(FFromInt(200), F3)}

\* scores with each environmental component beside two different social
\* and governance components; pydantic validates no assignment, so a score
\* may hold a component outside [0, 100] that was assigned to it
BridgeScores ==
    {[ESGScore_create(F0, sg[1], sg[2]).value EXCEPT !.environmental = env] :
        env \in EnvironmentalInputs, sg \in {<<F0, F100>>, <<F90, F50>>}}

\* ISO20022Bridge().calculate_taxonomy_alignment(score)
CalculateTaxonomyAlignment ==
    /\ call.op \in {None, "calculate_taxonomy_alignment"}
    /\ \E score \in BridgeScores :
         /\ call' = [op |-> "calculate_taxonomy_alignment", args |-> <<score>>]
         /\ ret' = Return(calculate_taxonomy_alignment(score))
    /\ last' = [call |-> call, ret |-> ret]
    /\ UNCHANGED <<rules, scoring, given>>

\* instruments, one of them with markup characters in its name and no ISIN
InstrumentInputs ==
    {FinancialInstrument(isin, "549300PZDW6EBUUJ8G35", name) :
        isin \in {"US46434G1031", ""}, name \in {"ERC8040 Green Bond", "R&D <Green> \"Bond\""}}

\* 0.0, 30.0, 92.0, 100.0, 0.125, 13.5 and -2.5
AlignmentInputs ==
    {FFromInt(n) : n \in {0, 30, 92, 100}}
        \cup {[sgn |-> 1, m |-> <<1>>, e |-> -3], [sgn |-> 1, m |-> <<27>>, e |-> -1],
              [sgn |-> -1, m |-> <<5>>, e |-> -1]}

\* classifications, with and without a carbon intensity (40.0)
ClassificationInputs ==
    {ESGClassification(alignment, article, rating, carbon) :
        alignment \in AlignmentInputs, article \in {-1, 6, 8, 9, 10},
        rating \in {"AA", "D", "<AAA/>"}, carbon \in {<<>>, <<F40>>}}

\* ISO20022Bridge().create_setr_message(instrument, esg)
CreateSetrMessage ==
    /\ Idle
    /\ \E instrument \in InstrumentInputs, esg \in ClassificationInputs :
         /\ call' = [op |-> "create_setr_message", args |-> <<instrument, esg>>]
         /\ ret' = Return(create_setr_message(instrument, esg))
    /\ UNCHANGED <<rules, scoring, given, last>>

NextBridge ==
    \/ MapSfdrArticle
    \/ CalculateTaxonomyAlignment
    \/ CreateSetrMessage
    \/ Discard

SpecBridge == InitState /\ [][NextBridge]_vars

(***************************************************************************)
(* Properties of validate_esg (under Spec).                                *)
(***************************************************************************)
\* the arguments of the validate_esg call in progress
IsValidate == call.op = "validate_esg"
QScore     == call.args[1]
QJurisdiction == call.args[2]
QFramework == call.args[3]
QCategory  == call.args[4]
\* the time the rules are checked at: at_time, or the clock when it is None
QTime      == IF call.args[5] = <<>> THEN call.args[6][1] ELSE call.args[5][1]

\* the position of a rating in D < C < CC < CCC < B < BB < BBB < A < AA < AAA
RatingPosition(r) ==
    CASE r = "D" -> 0 [] r = "C" -> 1 [] r = "CC" -> 2 [] r = "CCC" -> 3 [] r = "B" -> 4
      [] r = "BB" -> 5 [] r = "BBB" -> 6 [] r = "A" -> 7 [] r = "AA" -> 8 [] r = "AAA" -> 9

EffectiveAt(rule, t) ==
    /\ rule.effective_from <= t
    /\ (rule.effective_until = <<>> \/ t <= rule.effective_until[1])

PassesFilter(rule) ==
    /\ (rule.jurisdiction = QJurisdiction \/ rule.jurisdiction = "GLOBAL")
    /\ rule.framework = QFramework
    /\ rule.category = QCategory

\* the rule is effective at the queried time and passes the filter
Evaluated(rule) == EffectiveAt(rule, QTime) /\ PassesFilter(rule)

\* the rule requires one of the ten rating labels
HasLabel(rule) ==
    /\ rule.required_esg_rating /= <<>>
    /\ rule.required_esg_rating[1]
           \in {"D", "C", "CC", "CCC", "B", "BB", "BBB", "A", "AA", "AAA"}

\* C1: validate_esg returns one result per stored rule, in insertion order:
\* the result list is as long as the rule list and the i-th result carries
\* the i-th rule's id, also when rules repeat or share an id.
C1_OneResultPerRule ==
    IsValidate =>
        /\ ret.ok
        /\ Len(ret.value) = Len(rules)
        /\ \A i \in 1..Len(rules) : ret.value[i].rule_id = rules[i].id

\* two different rules that share an id, the first of them not effective
C1_Witness ==
    /\ IsValidate
    /\ Len(rules) = 2
    /\ rules[1] /= rules[2]
    /\ rules[1].id = rules[2].id
    /\ ~EffectiveAt(rules[1], QTime)
    /\ ret.value[2].status = "compliant"

\* C2: each rule is decided by the first matching step: not effective ->
\* not_applicable "Rule not currently effective"; else filtered out ->
\* not_applicable "Rule not applicable for given filters"; else no required
\* rating -> not_applicable "No ESG rating requirement"; whatever the rule's
\* required rating is.
C2_FirstMatchingStep ==
    IsValidate =>
        \A i \in 1..Len(rules) :
            LET rule == rules[i]
                res  == ret.value[i]
            IN  /\ ~EffectiveAt(rule, QTime) =>
                      /\ res.status = "not_applicable"
                      /\ res.message = "Rule not currently effective"
                /\ EffectiveAt(rule, QTime) /\ ~PassesFilter(rule) =>
                      /\ res.status = "not_applicable"
                      /\ res.message = "Rule not applicable for given filters"
                /\ Evaluated(rule) /\ rule.required_esg_rating = <<>> =>
                      /\ res.status = "not_applicable"
                      /\ res.message = "No ESG rating requirement"

\* a rule with an unparseable requirement that is neither effective nor
\* passes the filter, and one that is effective and filtered out
C2_Witness ==
    /\ IsValidate
    /\ Len(rules) = 2
    /\ rules[1].required_esg_rating = <<"INVALID">>
    /\ ~EffectiveAt(rules[1], QTime)
    /\ ~PassesFilter(rules[1])
    /\ ret.value[1].message = "Rule not currently effective"
    /\ rules[2].required_esg_rating = <<"INVALID">>
    /\ EffectiveAt(rules[2], QTime)
    /\ ~PassesFilter(rules[2])
    /\ ret.value[2].message = "Rule not applicable for given filters"

\* C3: for a rule that is effective, passes the filter and requires a valid
\* rating label, the result is compliant iff the score's rating is at or
\* above the required one in D < C < ... < AAA, and non_compliant otherwise.
C3_RatingComparison ==
    IsValidate =>
        \A i \in 1..Len(rules) :
            Evaluated(rules[i]) /\ HasLabel(rules[i]) =>
                IF RatingPosition(QScore.rating)
                       >= RatingPosition(rules[i].required_esg_rating[1])
                THEN ret.value[i].status = "compliant"
                ELSE ret.value[i].status = "non_compliant"

\* a score whose rating equals the required one, and is compliant
C3_Witness ==
    /\ IsValidate
    /\ Len(rules) >= 1
    /\ Evaluated(rules[1])
    /\ rules[1].required_esg_rating = <<QScore.rating>>
    /\ ret.value[1].status = "compliant"

\* C4: for a rule that is effective and passes the filter, a required rating
\* that is none of the ten labels gives non_compliant "Invalid required ESG
\* rating" whatever the score; no error is raised and every rule has its
\* result.
C4_InvalidRequiredRating ==
    IsValidate =>
        /\ ret.ok
        /\ Len(ret.value) = Len(rules)
        /\ \A i \in 1..Len(rules) :
              /\ Evaluated(rules[i])
              /\ rules[i].required_esg_rating /= <<>>
              /\ ~HasLabel(rules[i])
              => /\ ret.value[i].status = "non_compliant"
                 /\ ret.value[i].message = "Invalid required ESG rating"

\* an unparseable requirement followed by a rule that is compliant
C4_Witness ==
    /\ IsValidate
    /\ Len(rules) = 2
    /\ Evaluated(rules[1])
    /\ rules[1].required_esg_rating = <<"INVALID">>
    /\ ret.value[1].status = "non_compliant"
    /\ ret.value[2].status = "compliant"

(***************************************************************************)
(* Properties of overall_status (under SpecOverall).                       *)
(***************************************************************************)
PriorityOrder ==
    <<"non_compliant", "pending", "partially_compliant", "compliant", "not_applicable">>

StatusSet(results) == {results[i].status : i \in 1..Len(results)}

\* the status of highest priority in S; not_applicable when S is empty
Highest(S) ==
    IF S = {} THEN "not_applicable"
    ELSE PriorityOrder[CHOOSE i \in 1..Len(PriorityOrder) :
                          /\ PriorityOrder[i] \in S
                          /\ \A j \in 1..(i - 1) : PriorityOrder[j] \notin S]

Reversed(list) == [i \in 1..Len(list) |-> list[Len(list) + 1 - i]]

\* C5: overall_status returns the status of highest priority (non_compliant >
\* pending > partially_compliant > compliant > not_applicable) among those in
\* the list, not_applicable for the empty list: it depends only on the set
\* of statuses, so not on their order or on repetitions.
C5_PriorityOfStatusSet ==
    call.op = "overall_status" =>
        LET results == call.args[1]
        IN  /\ ret.value = Highest(StatusSet(results))
            /\ overall_status(Reversed(results)) = ret.value
            /\ overall_status(results \o results) = ret.value

\* pending wins over partially_compliant and compliant seen before it
C5_Witness ==
    /\ call.op = "overall_status"
    /\ Len(call.args[1]) = 3
    /\ call.args[1][1].status = "compliant"
    /\ call.args[1][2].status = "partially_compliant"
    /\ call.args[1][3].status = "pending"
    /\ ret.value = "pending"

(***************************************************************************)
(* Properties of ESGRating.from_score (under SpecRating).                  *)
(***************************************************************************)
\* the bounds 20, 30, 40, 50, 60, 70, 80, 85, 90
RatingBounds == {FFromInt(n) : n \in {20, 30, 40, 50, 60, 70, 80, 85, 90}}

\* how many of the bounds x reaches
BoundsReached(x) == Cardinality({b \in RatingBounds : FCmp(x, b) >= 0})

\* C6: from_score never fails and gives the rating of the highest inclusive
\* lower bound the score reaches (D below 20, negative scores included); so
\* the rating never goes down as the score goes up, and it changes exactly
\* at 20, 30, 40, 50, 60, 70, 80, 85 and 90.
C6_FromScoreBands ==
    call.op = "from_score" =>
        LET x == call.args[1]
        IN  /\ ret.ok
            /\ ret.value \in Ratings
            /\ RatingPosition(ret.value) = BoundsReached(x)
            /\ last.call.op = "from_score" =>
                  LET y == last.call.args[1]
                  IN  /\ FCmp(y, x) <= 0 =>
                            RatingPosition(last.ret.value) <= RatingPosition(ret.value)
                      /\ FCmp(y, x) < 0 =>
                            (last.ret.value /= ret.value
                                <=> \E b \in RatingBounds : FCmp(y, b) < 0 /\ FCmp(b, x) <= 0)

\* the rating changes from A to AA between the largest float below 85 and 85
C6_Witness ==
    /\ call.op = "from_score"
    /\ last.call.op = "from_score"
    /\ last.call.args[1] = FPred(F85)
    /\ call.args[1] = F85
    /\ last.ret.value = "A"
    /\ ret.value = "AA"

(***************************************************************************)
(* Properties of ESGScore and ESGScoring (under SpecScore).                *)
(***************************************************************************)
ReturnsScore == call.op \in {"create", "calculate", "ESGScore"} /\ ret.ok

\* 0 <= x <= 100
Within0To100(x) == FCmp(x, FFromInt(0)) >= 0 /\ FCmp(x, FFromInt(100)) <= 0

\* the exact sum of three weights, and the exact weighted sum of three scores
ExactSum(w) == XAdd(XAdd(w[1], w[2]), w[3])
ExactDot(w, v) == XAdd(XAdd(XMul(v[1], w[1]), XMul(v[2], w[2])), XMul(v[3], w[3]))

\* x = n / d exactly, for d /= 0
IsQuotient(x, n, d) == XMul(x, d) = n

\* |x - n / d| <= 10^-9, for d > 0
NearQuotient(x, n, d) ==
    Let2(XMul(XAdd(XMul(x, d), FNeg(n)), FFromInt(1000000000)), d,
         LAMBDA diff, bound : FIsZero(diff) \/ FCmpAbs(diff, bound) <= 0)

\* C7 as claimed: every ESGScore that is constructed, by create, by
\* calculate or by the constructor, has rating = from_score(total).
C7_RatingMatchesTotal ==
    ReturnsScore => ret.value.rating = from_score(ret.value.total)

\* C8 as claimed: calculate on a calculator built with weights of positive
\* sum W returns total = (e*we + s*ws + g*wg) / W.
C8_ExactQuotient ==
    /\ call.op = "calculate"
    /\ ret.ok
    /\ FCmp(ExactSum(given), FFromInt(0)) > 0
    => IsQuotient(ret.value.total, ExactDot(given, call.args), ExactSum(given))

\* C8 amended: for non-negative weights of positive sum W, calculate returns
\* a total within 10^-9 of (e*we + s*ws + g*wg) / W and the rating of that
\* total; weights (2,1,1) on (80,60,60) give exactly 70 and BBB; and integer
\* weights multiplied by a common positive factor give the same calculator.
C8_RoundedQuotient ==
    /\ /\ call.op = "calculate"
       /\ ret.ok
       /\ \A i \in 1..3 : FCmp(given[i], FFromInt(0)) >= 0
       => /\ NearQuotient(ret.value.total, ExactDot(given, call.args), ExactSum(given))
          /\ RatingPosition(ret.value.rating) = BoundsReached(ret.value.total)
    /\ /\ call.op = "calculate"
       /\ given = <<FFromInt(2), FFromInt(1), FFromInt(1)>>
       /\ call.args = <<FFromInt(80), FFromInt(60), FFromInt(60)>>
       => /\ ret.ok
          /\ ret.value.total = FFromInt(70)
          /\ ret.value.rating = "BBB"
    /\ /\ call.op = "ESGScoring"
       /\ ret.ok
       /\ \A i \in 1..3 : call.args[i] \in WeightInputs
       /\ FCmp(ExactSum(call.args), FFromInt(0)) > 0
       => \A k \in 2..MaxFactor :
             ESGScoring(XMul(FFromInt(k), call.args[1]), XMul(FFromInt(k), call.args[2]),
                        XMul(FFromInt(k), call.args[3])) = ret

\* equal weights on (40, 60, 80): the total is below 60 and the rating is B
C8_Witness ==
    /\ call.op = "calculate"
    /\ ret.ok
    /\ given = <<FFromInt(1), FFromInt(1), FFromInt(1)>>
    /\ call.args = <<FFromInt(40), FFromInt(60), FFromInt(80)>>
    /\ ~IsQuotient(ret.value.total, ExactDot(given, call.args), ExactSum(given))
    /\ FCmp(ret.value.total, FFromInt(60)) < 0
    /\ ret.value.rating = "B"

\* C9 as claimed: constructing an ESGScoring whose weights sum to zero or
\* less fails, and no calculator with such weights exists.
C9_DegenerateWeightsRejected ==
    /\ call.op = "ESGScoring" /\ FCmp(ExactSum(call.args), FFromInt(0)) <= 0 => ~ret.ok
    /\ scoring /= <<>> => FCmp(ExactSum(given), FFromInt(0)) > 0

\* the total calculate computes from the calculator's weights
ProducedTotal ==
    FAdd(FAdd(FMul(call.args[1], scoring[1].environmental_weight),
              FMul(call.args[2], scoring[1].social_weight)),
         FMul(call.args[3], scoring[1].governance_weight))

AtOrAboveBBB == {r \in Ratings : RatingPosition(r) >= RatingPosition("BBB")}

\* C16: a rating is investment grade exactly when it is one of AAA, AA, A and
\* BBB, which are the ratings at or above BBB in the order D..AAA; a score's
\* is_investment_grade() is that of its rating, and for a score that create
\* or calculate built it is true exactly when the total is at least 70.
C16_InvestmentGrade ==
    /\ AtOrAboveBBB = {"AAA", "AA", "A", "BBB"}
    /\ call.op = "ESGRating.is_investment_grade" =>
          /\ ret.ok
          /\ ret.value <=> call.args[1] \in AtOrAboveBBB
    /\ call.op = "is_investment_grade" =>
          /\ ret.ok
          /\ ret.value <=> call.args[1].rating \in AtOrAboveBBB
          /\ last.call.op \in {"create", "calculate"} =>
                (ret.value <=> FCmp(call.args[1].total, FFromInt(70)) >= 0)

\* a score that calculate built with a total of exactly 70 is investment grade
C16_Witness ==
    /\ call.op = "is_investment_grade"
    /\ last.call.op = "calculate"
    /\ call.args[1].total = FFromInt(70)
    /\ call.args[1].rating = "BBB"
    /\ ret.value = TRUE

(***************************************************************************)
(* Properties of the validator's rule list (under Spec).                   *)
(***************************************************************************)
\* add_rule applied to each rule of new in turn
RECURSIVE AddEachInTurn(_, _, _)
AddEachInTurn(list, new, i) ==
    IF i > Len(new) THEN list
    ELSE AddEachInTurn(Append(list, new[i]), new, i + 1)

\* the step is a call of add_rule or of add_rules
AddsRules == call'.op \in {"add_rule", "add_rules"}

\* C11: a new validator has no rules, and the rule list changes only through
\* add_rule, which appends its rule at the end, and add_rules, which appends
\* the given rules in their order, as add_rule on each in turn would; the
\* rules already held keep their places, nothing is removed, reordered or
\* de-duplicated, and validate_esg and overall_status leave the list as it is.
C11_RuleListFrame ==
    /\ rules = <<>>
    /\ [][/\ call'.op = "add_rule" =>
               /\ Len(rules') = Len(rules) + 1
               /\ rules'[Len(rules')] = call'.args[1]
               /\ SubSeq(rules', 1, Len(rules)) = rules
          /\ call'.op = "add_rules" =>
               /\ rules' = AddEachInTurn(rules, call'.args[1], 1)
               /\ SubSeq(rules', 1, Len(rules)) = rules
               /\ SubSeq(rules', Len(rules) + 1, Len(rules')) = call'.args[1]
          /\ ~AddsRules => rules' = rules]_vars

\* add_rules has appended a second copy of the rule the list already held
C11_Witness ==
    /\ call.op = "add_rules"
    /\ Len(call.args[1]) = 1
    /\ Len(rules) = 2
    /\ rules[1] = rules[2]
    /\ rules[2] = call.args[1][1]

(***************************************************************************)
(* Properties of ComplianceRule (under SpecRule).                          *)
(***************************************************************************)
\* the time an is_effective call tests: at_time, or the clock it read
TestedTime == IF call.args[2] = <<>> THEN call.args[3][1] ELSE call.args[2][1]

\* t lies in the closed window [from, until], which has no end when until
\* is absent
InWindow(t, from, until) ==
    /\ t \in {x \in Times : x >= from}
    /\ \A u \in {until[i] : i \in 1..Len(until)} : t \in {x \in Times : x <= u}

\* C12: is_effective(at_time) is true exactly when effective_from <= at_time
\* and effective_until is absent or at_time <= effective_until; both ends of
\* the window are inclusive.
C12_EffectiveWindow ==
    call.op = "is_effective" =>
        LET rule == call.args[1]
        IN  /\ ret.value = InWindow(TestedTime, rule.effective_from, rule.effective_until)
            /\ TestedTime = rule.effective_from
                   /\ rule.effective_until \in {<<>>, <<TestedTime>>} => ret.value = TRUE
            /\ rule.effective_until = <<TestedTime>>
                   /\ rule.effective_from <= TestedTime => ret.value = TRUE

\* a rule was found effective at the very end of a window that began earlier
C12_Witness ==
    /\ call.op = "is_effective"
    /\ call.args[2] /= <<>>
    /\ call.args[1].effective_until = call.args[2]
    /\ call.args[1].effective_from < call.args[2][1]
    /\ ret.value = TRUE

\* C13: applies_to(j) is true exactly when the rule's jurisdiction is j or is
\* GLOBAL; a rule of a specific jurisdiction applies to no other queried
\* jurisdiction, a query for GLOBAL included.
C13_JurisdictionMatch ==
    call.op = "applies_to" =>
        LET rule == call.args[1]
            j    == call.args[2]
        IN  CASE rule.jurisdiction = "GLOBAL" -> ret.value = TRUE
              [] rule.jurisdiction /= "GLOBAL" /\ j = rule.jurisdiction -> ret.value = TRUE
              [] OTHER -> ret.value = FALSE

\* a rule of a specific jurisdiction was found not to apply to a query for GLOBAL
C13_Witness ==
    /\ call.op = "applies_to"
    /\ call.args[1].jurisdiction = "EU"
    /\ call.args[2] = "GLOBAL"
    /\ ret.value = FALSE

(***************************************************************************)
(* Properties of ISO20022Bridge (under SpecBridge).                        *)
(***************************************************************************)
\* the SFDR article of each rating
ArticleOf ==
    [r \in Ratings |->
        CASE r \in {"AAA", "AA", "A"} -> 9
          [] r \in {"BBB", "BB"} -> 8
          [] r \in {"B", "CCC", "CC", "C", "D"} -> 6]

\* C14: map_sfdr_article fails for none of the ten ratings and returns 9 for
\* AAA, AA and A, 8 for BBB and BB, and 6 for B, CCC, CC, C and D; its result
\* is always one of 6, 8 and 9, and it never decreases as the rating rises
\* in the order D..AAA.
C14_SfdrArticle ==
    call.op = "map_sfdr_article" =>
        /\ ret.ok
        /\ ret.value = ArticleOf[call.args[1]]
        /\ ret.value \in {6, 8, 9}
        /\ last.call.op = "map_sfdr_article"
               /\ RatingPosition(last.call.args[1]) <= RatingPosition(call.args[1])
               => last.ret.value <= ret.value

\* the article rises from 6 to 8 between B and BB
C14_Witness ==
    /\ call.op = "map_sfdr_article"
    /\ last.call.op = "map_sfdr_article"
    /\ last.call.args[1] = "B"
    /\ call.args[1] = "BB"
    /\ last.ret.value = 6
    /\ ret.value = 8

\* min(e, 100), (e - 60) * 2 or 0 in exact arithmetic, by the band of e
AlignmentOf(e) ==
    IF FCmp(e, FFromInt(80)) >= 0
    THEN IF FCmp(e, FFromInt(100)) <= 0 THEN e ELSE FFromInt(100)
    ELSE IF FCmp(e, FFromInt(60)) >= 0
    THEN XMul(XAdd(e, FFromInt(-60)), FFromInt(2))
    ELSE FFromInt(0)

\* C15: calculate_taxonomy_alignment returns min(e, 100) when e >= 80,
\* (e - 60) * 2 when 60 <= e < 80 and 0 when e < 60, for e the environmental
\* component of the score; for e in [0, 100] the result lies in [0, 100];
\* two scores of the same environmental component give the same result,
\* whatever their social and governance components.
C15_TaxonomyAlignment ==
    call.op = "calculate_taxonomy_alignment" =>
        LET e == call.args[1].environmental
        IN  /\ ret.ok
            /\ ret.value = AlignmentOf(e)
            /\ Within0To100(e) => Within0To100(ret.value)
            /\ last.call.op = "calculate_taxonomy_alignment"
                   /\ last.call.args[1].environmental = e
                   => last.ret.value = ret.value

\* two scores of environmental component 200/3 that differ in their social
\* and governance components both gave (200/3 - 60) * 2
C15_Witness ==
    /\ call.op = "calculate_taxonomy_alignment"
    /\ last.call.op = "calculate_taxonomy_alignment"
    /\ call.args[1].environmental = FDiv(FFromInt(200), FFromInt(3))
    /\ last.call.args[1].environmental = call.args[1].environmental
    /\ last.call.args[1].social /= call.args[1].social
    /\ last.call.args[1].governance /= call.args[1].governance
    /\ call.args[1].total /= call.args[1].environmental
    /\ ret.value = last.ret.value
    /\ FCmp(ret.value, FFromInt(13)) > 0
    /\ FCmp(ret.value, FFromInt(14)) < 0

\* the text of each float given to create_setr_message, as Python prints it
FloatText(x) ==
    CASE x = FFromInt(0) -> "0.0"
      [] x = FFromInt(30) -> "30.0"
      [] x = FFromInt(92) -> "92.0"
      [] x = FFromInt(100) -> "100.0"
      [] x = [sgn |-> 1, m |-> <<1>>, e |-> -3] -> "0.125"
      [] x = [sgn |-> 1, m |-> <<27>>, e |-> -1] -> "13.5"
      [] x = [sgn |-> -1, m |-> <<5>>, e |-> -1] -> "-2.5"

\* the text of each int given to create_setr_message, as Python prints it
IntText(n) ==
    CASE n = -1 -> "-1" [] n = 6 -> "6" [] n = 8 -> "8" [] n = 9 -> "9" [] n = 10 -> "10"

\* two spaces for each level of nesting
Indent(depth) == IF depth = 0 THEN "" ELSE IF depth = 1 THEN "  "
                 ELSE IF depth = 2 THEN "    " ELSE "      "

\* an element that holds text, on one line
Leaf(depth, tag, text) == <<Indent(depth) \o "<" \o tag \o ">" \o text \o "</" \o tag \o ">">>

\* an element that holds elements: its tags on lines of their own
Block(depth, tag, attributes, inner) ==
    <<Indent(depth) \o "<" \o tag \o attributes \o ">">> \o inner
        \o <<Indent(depth) \o "</" \o tag \o ">">>

\* the lines with a line feed between each two
RECURSIVE Unlines(_, _)
Unlines(lines, n) ==
    IF n = 0 THEN "" ELSE IF n = 1 THEN lines[1]
    ELSE Unlines(lines, n - 1) \o "\n" \o lines[n]

\* the message for an instrument and a classification
SetrDocument(instrument, esg) ==
    <<"<?xml version=\"1.0\" encoding=\"UTF-8\"?>">>
    \o Block(0, "Document", " xmlns=\"urn:iso:std:iso:20022:tech:xsd:setr.010.001.04\"",
         Block(1, "SctiesTradConf", "",
             Block(2, "FinInstrmId", "",
                 Leaf(3, "ISIN", instrument.isin)
                 \o Leaf(3, "LEI", instrument.lei)
                 \o Leaf(3, "Nm", instrument.name))
             \o Block(2, "ESGClssfctn", "",
                 Leaf(3, "TaxnmyAlgnmt", FloatText(esg.taxonomy_alignment))
                 \o Leaf(3, "SFDRArtcl", IntText(esg.sfdr_article))
                 \o Leaf(3, "ERC8040Rtg", esg.erc8040_rating))))

\* C17: create_setr_message renders one fixed sequence of elements, one to a
\* line: the XML declaration, the Document root with the namespace
\* urn:iso:std:iso:20022:tech:xsd:setr.010.001.04, then SctiesTradConf holding
\* FinInstrmId with ISIN, LEI and Nm, and after it ESGClssfctn with
\* TaxnmyAlgnmt, SFDRArtcl and ERC8040Rtg; each element holds its field's
\* text as it is, markup characters unescaped, and the carbon intensity is
\* nowhere in the message.
C17_SetrMessage ==
    call.op = "create_setr_message" =>
        LET instrument == call.args[1]
            esg == call.args[2]
            document == SetrDocument(instrument, esg)
        IN  /\ ret.ok
            /\ Len(document) = 15
            /\ ret.value = Unlines(document, Len(document))

\* the message for a name with markup characters and a carbon intensity
C17_Witness ==
    /\ call.op = "create_setr_message"
    /\ call.args[1].name = "R&D <Green> \"Bond\""
    /\ call.args[2].carbon_intensity = <<FFromInt(40)>>
    /\ ret.value = "<?xml version=\"1.0\" encoding=\"UTF-8\"?>\n"
           \o "<Document xmlns=\"urn:iso:std:iso:20022:tech:xsd:setr.010.001.04\">\n"
           \o "  <SctiesTradConf>\n"
           \o "    <FinInstrmId>\n"
           \o "      <ISIN>US46434G1031</ISIN>\n"
           \o "      <LEI>549300PZDW6EBUUJ8G35</LEI>\n"
           \o "      <Nm>R&D <Green> \"Bond\"</Nm>\n"
           \o "    </FinInstrmId>\n"
           \o "    <ESGClssfctn>\n"
           \o "      <TaxnmyAlgnmt>13.5</TaxnmyAlgnmt>\n"
           \o "      <SFDRArtcl>9</SFDRArtcl>\n"
           \o "      <ERC8040Rtg>AA</ERC8040Rtg>\n"
           \o "    </ESGClssfctn>\n"
           \o "  </SctiesTradConf>\n"
           \o "</Document>"

(***************************************************************************)
(* Properties of validate_esg followed by overall_status (under Spec).     *)
(***************************************************************************)
\* the statuses validate_esg gives
DecidedStatuses == {"compliant", "non_compliant", "not_applicable"}

\* the rule is effective at the time of the validate_esg call c, matches its
\* filters, and requires a rating that is no rating or is above the score's
FailsAt(rule, c) ==
    LET t == IF c.args[5] = <<>> THEN c.args[6][1] ELSE c.args[5][1]
    IN  /\ rule.effective_from <= t
        /\ \A i \in 1..Len(rule.effective_until) : t <= rule.effective_until[i]
        /\ rule.jurisdiction \in {c.args[2], "GLOBAL"}
        /\ rule.framework = c.args[3]
        /\ rule.category = c.args[4]
        /\ \E i \in 1..Len(rule.required_esg_rating) :
              \/ rule.required_esg_rating[i] \notin Ratings
              \/ /\ rule.required_esg_rating[i] \in Ratings
                 /\ RatingPosition(rule.required_esg_rating[i]) > RatingPosition(c.args[1].rating)

\* C18: every result validate_esg returns is compliant, non_compliant or
\* not_applicable, never pending or partially_compliant; so overall_status of
\* the list validate_esg returned is never pending or partially_compliant,
\* and it is non_compliant exactly when some rule that is effective and
\* matches the filters requires a rating that cannot be parsed or is above
\* the score's rating.
C18_DecidedStatuses ==
    /\ call.op = "validate_esg" =>
          \A i \in 1..Len(ret.value) : ret.value[i].status \in DecidedStatuses
    /\ call.op = "overall_status" /\ last.call.op = "validate_esg" =>
          /\ ret.value \in DecidedStatuses
          /\ ret.value = "non_compliant"
                <=> \E i \in 1..Len(rules) : FailsAt(rules[i], last.call)

\* the overall status is non_compliant for a compliant rule followed by one
\* whose required rating cannot be parsed
C18_Witness ==
    /\ call.op = "overall_status"
    /\ last.call.op = "validate_esg"
    /\ Len(rules) = 2
    /\ last.ret.value[1].status = "compliant"
    /\ rules[2].required_esg_rating = <<"INVALID">>
    /\ FailsAt(rules[2], last.call)
    /\ ~FailsAt(rules[1], last.call)
    /\ ret.value = "non_compliant"

====
